---- MODULE Spec2Model ----
(***************************************************************************)
(* QR scavenger hunt backend: the persistence store (Station, Class, Scan, *)
(* Drawing documents) and the request handlers that read and write it.     *)
(*                                                                         *)
(* Every handler is one atomic action (requests that do not overlap); the  *)
(* handlers whose interleavings are studied are split at their awaits in   *)
(* the Race specification further down.                                    *)
(*                                                                         *)
(* A Scan document is the triple (class reference, station reference,      *)
(* scannedAt).  recordScan writes and queries the references under the     *)
(* names classId/stationId (models/Scan.js), runDrawing and                *)
(* getEligibleClassesForDrawing read them under the names class/station,   *)
(* as the controller unit tests do; the model has one class reference and  *)
(* one station reference per Scan and every query selects on them.         *)
(*                                                                         *)
(* document.save() stores the handler's in-memory document as it stands    *)
(* where the handler is one action.  Where recordScan is split at its      *)
(* awaits, classObj.save() writes the paths the handler changed on its     *)
(* copy (the pushed station, lastScanAt, and isCompleted/completedAt if    *)
(* it set them) onto the stored document, as the document library does.    *)
(* The store's own bookkeeping of document versions is not modelled.       *)
(*                                                                         *)
(* Dates are readings of the logical clock `now`; NoDate is an unset date. *)
(* Weighting factors are kept in halves (the value 1 stands for 0.5), so   *)
(* that Math.round has something to round.                                 *)
(***************************************************************************)
EXTENDS Integers, Sequences, FiniteSets, TLC

\* ---- bounds -------------------------------------------------------------
NumStations == 3
NumClasses == 2
NumDrawings == 1
MaxClock == 1
MaxWinners == 2
\* the scanning specification follows NumScanClasses classes, the drawing
\* specification issues NumDrawStations stations
NumScanClasses == 1
NumDrawStations == 2
\* runDrawing requests that may be in flight together
NumRuns == 2
\* recordScan requests that may be in flight together
NumScanReqs == 2
\* the clock of the specifications that compare durations
MaxLongClock == 2

StationIds == 1..NumStations
ClassIds == 1..NumClasses
DrawingIds == 1..NumDrawings
RunIds == 1..NumRuns
ScanReqIds == 1..NumScanReqs
Dates == 0..MaxClock
NoDate == -1
NoId == 0

\* a field that is not there
Undefined == "undefined"

Teachers == {"t1", "t2"}
Users == Teachers \cup {"admin"}
\* the users a token can name: those above and one whose document has no role
Requesters == Users \cup {"norole"}

VARIABLES stations, classes, scans, drawings, now, resp, runs, scanReqs

vars == <<stations, classes, scans, drawings, now, resp, runs, scanReqs>>

\* ---- documents ----------------------------------------------------------
\* a Station slot: "absent" (id not yet issued), "active", "inactive"
\* (isActive = false), "deleted" (the document was removed; the id is not
\* issued again)
StationStates == {"absent", "active", "inactive", "deleted"}

NoClass ==
  [exists |-> FALSE, teacher |-> "t1", name |-> "a", classCode |-> NoId,
   registeredAt |-> NoDate, isActive |-> TRUE, stationsScanned |-> {}, isCompleted |-> FALSE,
   lastScanAt |-> NoDate, completedAt |-> NoDate]

NoDrawing ==
  [status |-> "absent", eligibleClasses |-> <<>>, winners |-> <<>>,
   stationsFound |-> 0, completionTime |-> 0]

\* a runDrawing request in flight: where it stands, its parameters and its
\* in-memory drawing document
NoRun == [pc |-> "idle", d |-> NoId, numberOfWinners |-> 0, drawing |-> NoDrawing]

\* a recordScan request in flight: where it stands, the ids of its body and
\* its in-memory class document
NoScanReq == [pc |-> "idle", c |-> NoId, s |-> NoId, classObj |-> NoClass]

\* the response to the last request: the handler that answered, the HTTP
\* status, the `existing` flag of the scan responses and the class ids of a
\* list in the body; with it what the handler did on its way besides its
\* writes: saves counts its calls of drawing.save(), emails holds the
\* teachers it called sendEmail for
\* the data of a progress response; class is the :id of the request
NoProgress ==
  [class |-> NoId, completedCount |-> 0, totalStations |-> 0,
   isCompleted |-> FALSE, completionTime |-> NoDate]

Response(op, code, existing) ==
  [op |-> op, code |-> code, existing |-> existing, data |-> <<>>,
   progress |-> NoProgress, saves |-> 0, emails |-> {}]

Init ==
  /\ stations = [s \in StationIds |-> "absent"]
  /\ classes = [c \in ClassIds |-> NoClass]
  /\ scans = {}
  /\ drawings = [d \in DrawingIds |-> NoDrawing]
  /\ now = 0
  /\ resp = Response("none", 0, FALSE)
  /\ runs = [r \in RunIds |-> NoRun]
  /\ scanReqs = [r \in ScanReqIds |-> NoScanReq]

\* ---- helpers ------------------------------------------------------------
\* req.user.role as protect loads it
Role(u) == IF u = "admin" THEN "admin"
           ELSE IF u \in Teachers THEN "teacher"
           ELSE Undefined

\* authorize letting every user with a role through
authorize_AnyRole(allowedRoles, u) == Role(u) # Undefined

\* authorize(...roles): 403 unless the user has a role and it is allowed
authorize(allowedRoles, u) == Role(u) # Undefined /\ Role(u) \in allowedRoles

\* Station.findById finding a document for every id
StationExists_Any(s) == TRUE

StationExists(s) == s \in StationIds /\ stations[s] \in {"active", "inactive"}

ClassExists(c) == c \in ClassIds /\ classes[c].exists

\* Station.countDocuments({ isActive: true }) / Station.find({ isActive: true })
ActiveStations == {s \in StationIds : stations[s] = "active"}

totalActiveStations == Cardinality(ActiveStations)

\* the next id the store issues for a new document
NextStationId == CHOOSE s \in StationIds :
                   /\ stations[s] = "absent"
                   /\ \A t \in StationIds : t < s => stations[t] # "absent"

NextClassId == CHOOSE c \in ClassIds :
                 /\ ~classes[c].exists
                 /\ \A t \in ClassIds : t < c => classes[t].exists

\* ---- the clock ----------------------------------------------------------
Tick ==
  /\ now < MaxClock
  /\ now' = now + 1
  /\ UNCHANGED <<stations, classes, scans, drawings, resp, runs, scanReqs>>

\* the clock where a hunt may take one or two units of time
LongTick ==
  /\ now < MaxLongClock
  /\ now' = now + 1
  /\ UNCHANGED <<stations, classes, scans, drawings, resp, runs, scanReqs>>

\* ---- stations (stationController, routes/stationRoutes.js) --------------
\* POST /stations: authorize('admin'), then Station.create(req.body); the
\* schema default of isActive is true, the body may say otherwise.
createStation(u, s, isActive) ==
  /\ stations[s] = "absent"
  /\ s = NextStationId
  /\ IF ~authorize({"admin"}, u)
       THEN /\ resp' = Response("createStation", 403, FALSE)
            /\ UNCHANGED stations
       ELSE /\ stations' = [stations EXCEPT ![s] =
                              IF isActive THEN "active" ELSE "inactive"]
            /\ resp' = Response("createStation", 201, FALSE)
  /\ UNCHANGED <<classes, scans, drawings, now, runs, scanReqs>>

\* PUT /stations/:id: Station.findByIdAndUpdate(id, req.body); of the body
\* only isActive matters to the model.
updateStation(u, s, isActive) ==
  /\ IF ~authorize({"admin"}, u)
       THEN /\ resp' = Response("updateStation", 403, FALSE)
            /\ UNCHANGED stations
       ELSE IF ~StationExists(s)
       THEN /\ resp' = Response("updateStation", 404, FALSE)
            /\ UNCHANGED stations
       ELSE /\ stations' = [stations EXCEPT ![s] =
                              IF isActive THEN "active" ELSE "inactive"]
            /\ resp' = Response("updateStation", 200, FALSE)
  /\ UNCHANGED <<classes, scans, drawings, now, runs, scanReqs>>

\* DELETE /stations/:id: station.deleteOne(); Scan documents and the
\* classes' stationsScanned keep their references to it.
deleteStation(u, s) ==
  /\ IF ~authorize({"admin"}, u)
       THEN /\ resp' = Response("deleteStation", 403, FALSE)
            /\ UNCHANGED stations
       ELSE IF ~StationExists(s)
       THEN /\ resp' = Response("deleteStation", 404, FALSE)
            /\ UNCHANGED stations
       ELSE /\ stations' = [stations EXCEPT ![s] = "deleted"]
            /\ resp' = Response("deleteStation", 200, FALSE)
  /\ UNCHANGED <<classes, scans, drawings, now, runs, scanReqs>>

\* ---- classes (classController) ------------------------------------------
Names == {"a", "b"}

\* a request body of PUT /classes/:id: the profile field the handler reads
\* (name stands for name, grade, school, studentCount, classPicture and
\* description) and progress fields a client may send along
UpdateBodies ==
  [name : Names \cup {Undefined}, isCompleted : {"false", Undefined}]

\* POST /classes: the body's profile fields and the requester as teacher;
\* the schema defaults fill the rest and the pre-save hook draws the
\* classCode of the new document (a code of its own per class: its id).
createClass(u, c, name) ==
  /\ ~classes[c].exists
  /\ c = NextClassId
  /\ classes' = [classes EXCEPT ![c] =
                   [NoClass EXCEPT !.exists = TRUE, !.teacher = u,
                                   !.name = name, !.classCode = c,
                                   !.registeredAt = now]]
  /\ resp' = Response("createClass", 201, FALSE)
  /\ UNCHANGED <<stations, scans, drawings, now, runs, scanReqs>>

\* request bodies of PUT /classes/:id that name, next to the profile field,
\* fields the handler does not destructure
FrameBodies ==
  [name : Names \cup {Undefined},
   classCode : {"NEWCODE", Undefined},
   teacher : {"t2", Undefined},
   stationsScanned : {"[]", Undefined},
   isCompleted : {"false", Undefined},
   completedAt : {"null", Undefined},
   lastScanAt : {"null", Undefined}]

\* the whole body handed to findByIdAndUpdate
fieldsToUpdate_WholeBody(classObj, body) ==
  [classObj EXCEPT
     !.name = IF body.name # Undefined THEN body.name ELSE @,
     !.teacher = IF body.teacher # Undefined THEN body.teacher ELSE @,
     !.isCompleted = IF body.isCompleted # Undefined THEN FALSE ELSE @]

\* what updateClass copies from the body into fieldsToUpdate
fieldsToUpdate(classObj, body) ==
  IF body.name # Undefined THEN [classObj EXCEPT !.name = body.name]
                           ELSE classObj

\* the ownership test dropped
notOwnerNorAdmin_Open(classObj, u) == FALSE

\* classObj.teacher._id.toString() !== req.user.id && req.user.role !== 'admin'
notOwnerNorAdmin(classObj, u) == classObj.teacher # u /\ Role(u) # "admin"

updateClass(u, c, body) ==
  /\ IF ~ClassExists(c)
       THEN /\ resp' = Response("updateClass", 404, FALSE)
            /\ UNCHANGED classes
       ELSE IF notOwnerNorAdmin(classes[c], u)
       THEN /\ resp' = Response("updateClass", 403, FALSE)
            /\ UNCHANGED classes
       ELSE /\ classes' = [classes EXCEPT ![c] = fieldsToUpdate(classes[c], body)]
            /\ resp' = Response("updateClass", 200, FALSE)
  /\ UNCHANGED <<stations, scans, drawings, now, runs, scanReqs>>

\* GET /classes/:id
getClass(u, c) ==
  /\ resp' = IF ~ClassExists(c) THEN Response("getClass", 404, FALSE)
             ELSE IF notOwnerNorAdmin(classes[c], u)
               THEN Response("getClass", 403, FALSE)
             ELSE Response("getClass", 200, FALSE)
  /\ UNCHANGED <<stations, classes, scans, drawings, now, runs, scanReqs>>

\* GET /classes/:id/details
getClassDetails(u, c) ==
  /\ resp' = IF ~ClassExists(c) THEN Response("getClassDetails", 404, FALSE)
             ELSE IF notOwnerNorAdmin(classes[c], u)
               THEN Response("getClassDetails", 403, FALSE)
             ELSE Response("getClassDetails", 200, FALSE)
  /\ UNCHANGED <<stations, classes, scans, drawings, now, runs, scanReqs>>

\* the completedCount of the progress query: the number of Scan documents
\* of the class, or the length of stationsScanned when there is none
completedCount(c) ==
  LET scanCount == Cardinality({x \in scans : x.class = c})
  IN  IF scanCount > 0 THEN scanCount
      ELSE Cardinality(classes[c].stationsScanned)

\* the completionTime of the progress query, in minutes; NoDate is null
completionTimeOf(classObj) ==
  IF /\ classObj.isCompleted
     /\ classObj.completedAt # NoDate
     /\ classObj.registeredAt # NoDate
    THEN classObj.completedAt - classObj.registeredAt
    ELSE NoDate

\* GET /classes/:id/progress
getClassProgress(u, c) ==
  /\ resp' = IF ~ClassExists(c) THEN Response("getClassProgress", 404, FALSE)
             ELSE IF notOwnerNorAdmin(classes[c], u)
               THEN Response("getClassProgress", 403, FALSE)
             ELSE [Response("getClassProgress", 200, FALSE) EXCEPT !.progress =
                     [class |-> c,
                      completedCount |-> completedCount(c),
                      totalStations |-> totalActiveStations,
                      isCompleted |-> classes[c].isCompleted,
                      completionTime |-> completionTimeOf(classes[c])]]
  /\ UNCHANGED <<stations, classes, scans, drawings, now, runs, scanReqs>>

\* ---- scans (scanController.recordScan) ----------------------------------
\* the check for an existing scan left out
existingScan_Skipped(c, s) == FALSE

\* Scan.findOne({ classId, stationId })
existingScan(c, s) == \E x \in scans : x.class = c /\ x.station = s

\* a store without the unique index
ScanSchemaIndex_Absent(c, s) == TRUE

\* the unique index on (classId, stationId): an insert of a pair that is
\* already stored is refused with a duplicate-key error
ScanSchemaIndex(c, s) == \A x \in scans : ~(x.class = c /\ x.station = s)

\* the completion flag recomputed on every scan instead of latched
UpdatedClassDoc_Recomputed(classObj, s, total) ==
  LET pushed == classObj.stationsScanned \cup {s}
      done == Cardinality(pushed) >= total /\ total > 0
  IN  [classObj EXCEPT !.stationsScanned = pushed,
                       !.lastScanAt = now,
                       !.isCompleted = done,
                       !.completedAt = IF done THEN now ELSE NoDate]

\* the in-memory class document after the "Update Class document" block,
\* given the count of active stations read by countDocuments
UpdatedClassDoc(classObj, s, total) ==
  LET pushed == IF s \in classObj.stationsScanned
                  THEN classObj.stationsScanned
                  ELSE classObj.stationsScanned \cup {s}
      touched == [classObj EXCEPT !.stationsScanned = pushed,
                                  !.lastScanAt = now]
  IN  IF classObj.isCompleted THEN touched
      ELSE IF Cardinality(pushed) >= total /\ total > 0
        THEN [touched EXCEPT !.isCompleted = TRUE, !.completedAt = now]
      ELSE IF total = 0 /\ Cardinality(pushed) = 0
        THEN [touched EXCEPT !.isCompleted = TRUE, !.completedAt = now]
      ELSE touched

\* a first scan whose failed class save is passed on as an error
recordScan_SaveFatal(c, s, saveOk) ==
  /\ c # NoId /\ s # NoId
  /\ StationExists(s) /\ stations[s] = "active"
  /\ ClassExists(c) /\ classes[c].isActive
  /\ ~existingScan(c, s)
  /\ scans' = scans \cup {[class |-> c, station |-> s, scannedAt |-> now]}
  /\ classes' = IF saveOk
                  THEN [classes EXCEPT ![c] =
                          UpdatedClassDoc(classes[c], s, totalActiveStations)]
                  ELSE classes
  /\ resp' = Response("recordScan", IF saveOk THEN 201 ELSE 500, FALSE)
  /\ UNCHANGED <<stations, drawings, now, runs, scanReqs>>

\* POST /scans with body { classId: c, stationQRCode: s }; NoId is a missing
\* field.  saveOk tells whether classObj.save() succeeds: its failure is
\* caught and logged.
recordScan(c, s, saveOk) ==
  /\ IF c = NoId \/ s = NoId
       THEN /\ resp' = Response("recordScan", 400, FALSE)
            /\ UNCHANGED <<classes, scans>>
     ELSE IF ~StationExists(s)
       THEN /\ resp' = Response("recordScan", 404, FALSE)
            /\ UNCHANGED <<classes, scans>>
     ELSE IF stations[s] # "active"
       THEN /\ resp' = Response("recordScan", 400, FALSE)
            /\ UNCHANGED <<classes, scans>>
     ELSE IF ~ClassExists(c)
       THEN /\ resp' = Response("recordScan", 404, FALSE)
            /\ UNCHANGED <<classes, scans>>
     ELSE IF ~classes[c].isActive
       THEN /\ resp' = Response("recordScan", 400, FALSE)
            /\ UNCHANGED <<classes, scans>>
     ELSE IF existingScan(c, s)
       THEN /\ classes' = IF saveOk
                            THEN [classes EXCEPT ![c].lastScanAt = now]
                            ELSE classes
            /\ resp' = Response("recordScan", 200, TRUE)
            /\ UNCHANGED scans
     ELSE IF ~ScanSchemaIndex(c, s)
       THEN /\ resp' = Response("recordScan", 500, FALSE)
            /\ UNCHANGED <<classes, scans>>
     ELSE /\ scans' = scans \cup {[class |-> c, station |-> s, scannedAt |-> now]}
          /\ classes' = IF saveOk
                          THEN [classes EXCEPT ![c] =
                                  UpdatedClassDoc(classes[c], s, totalActiveStations)]
                          ELSE classes
          /\ resp' = Response("recordScan", 201, FALSE)
  /\ UNCHANGED <<stations, drawings, now, runs, scanReqs>>

\* recordScan as the requests interleave, split at its awaits.
\* Up to Class.findById: the validation of the body, the station and the
\* class; request r keeps the class document it read.
scanFind(r, c, s) ==
  /\ scanReqs[r].pc = "idle"
  /\ IF c = NoId \/ s = NoId
       THEN /\ resp' = Response("recordScan", 400, FALSE)
            /\ UNCHANGED scanReqs
     ELSE IF ~StationExists(s)
       THEN /\ resp' = Response("recordScan", 404, FALSE)
            /\ UNCHANGED scanReqs
     ELSE IF stations[s] # "active"
       THEN /\ resp' = Response("recordScan", 400, FALSE)
            /\ UNCHANGED scanReqs
     ELSE IF ~ClassExists(c)
       THEN /\ resp' = Response("recordScan", 404, FALSE)
            /\ UNCHANGED scanReqs
     ELSE IF ~classes[c].isActive
       THEN /\ resp' = Response("recordScan", 400, FALSE)
            /\ UNCHANGED scanReqs
     ELSE /\ scanReqs' = [scanReqs EXCEPT ![r] =
                 [pc |-> "found", c |-> c, s |-> s, classObj |-> classes[c]]]
          /\ UNCHANGED resp
  /\ UNCHANGED <<stations, classes, scans, drawings, now, runs>>

\* await Scan.findOne(...) and the branch on its result
scanCheck(r) ==
  /\ scanReqs[r].pc = "found"
  /\ scanReqs' = [scanReqs EXCEPT ![r].pc =
        IF existingScan(scanReqs[r].c, scanReqs[r].s) THEN "existing" ELSE "new"]
  /\ UNCHANGED <<stations, classes, scans, drawings, now, resp, runs>>

\* the stored document after classObj.save() of a request that read the
\* document `read` and left its copy as `updated`, with the whole copy
\* written
SavedClassDoc_Whole(stored, read, updated) == updated

\* the stored document after classObj.save() of a request that read the
\* document `read` and left its copy as `updated`: the station it pushed is
\* appended, the fields it assigned are set, the other paths stay as stored
SavedClassDoc(stored, read, updated) ==
  [stored EXCEPT
     !.stationsScanned = @ \cup (updated.stationsScanned \ read.stationsScanned),
     !.lastScanAt = updated.lastScanAt,
     !.isCompleted = IF updated.isCompleted # read.isCompleted
                       THEN updated.isCompleted ELSE @,
     !.completedAt = IF updated.completedAt # read.completedAt
                       THEN updated.completedAt ELSE @]

\* the existing-scan branch: lastScanAt, the save in its try/catch, the 200
scanExisting(r, saveOk) ==
  /\ scanReqs[r].pc = "existing"
  /\ classes' = IF saveOk
                  THEN [classes EXCEPT ![scanReqs[r].c] =
                          SavedClassDoc(@, scanReqs[r].classObj,
                            [scanReqs[r].classObj EXCEPT !.lastScanAt = now])]
                  ELSE classes
  /\ resp' = Response("recordScan", 200, TRUE)
  /\ scanReqs' = [scanReqs EXCEPT ![r] = NoScanReq]
  /\ UNCHANGED <<stations, scans, drawings, now, runs>>

\* the status the error handler (utils/errorHandler, not among the sources)
\* gives a duplicate-key error thrown by Scan.create
DuplicateKeyCodes == {400, 500}

\* await Scan.create(...): the unique index refuses a pair already stored,
\* the error leaves the handler through asyncHandler
scanCreate(r) ==
  /\ scanReqs[r].pc = "new"
  /\ IF ~ScanSchemaIndex(scanReqs[r].c, scanReqs[r].s)
       THEN /\ \E code \in DuplicateKeyCodes :
                 resp' = Response("recordScan", code, FALSE)
            /\ scanReqs' = [scanReqs EXCEPT ![r] = NoScanReq]
            /\ UNCHANGED scans
       ELSE /\ scans' = scans \cup {[class |-> scanReqs[r].c,
                                      station |-> scanReqs[r].s,
                                      scannedAt |-> now]}
            /\ scanReqs' = [scanReqs EXCEPT ![r].pc = "created"]
            /\ UNCHANGED resp
  /\ UNCHANGED <<stations, classes, drawings, now, runs>>

\* the "Update Class document" block on the request's own class document,
\* the save in its try/catch, the 201
scanUpdate(r, saveOk) ==
  /\ scanReqs[r].pc = "created"
  /\ classes' = IF saveOk
                  THEN [classes EXCEPT ![scanReqs[r].c] =
                          SavedClassDoc(@, scanReqs[r].classObj,
                            UpdatedClassDoc(scanReqs[r].classObj, scanReqs[r].s,
                                            totalActiveStations))]
                  ELSE classes
  /\ resp' = Response("recordScan", 201, FALSE)
  /\ scanReqs' = [scanReqs EXCEPT ![r] = NoScanReq]
  /\ UNCHANGED <<stations, scans, drawings, now, runs>>

\* ---- drawings (drawingController) --------------------------------------
Range(f) == {f[i] : i \in DOMAIN f}

SetMin(S) == CHOOSE x \in S : \A y \in S : x <= y
SetMax(S) == CHOOSE x \in S : \A y \in S : x >= y

\* the 200 of a run: the handler called drawing.save() once; the
\* notification loop and the save after it are commented out, sendEmail is
\* not imported
RunResponse == [Response("runDrawing", 200, FALSE) EXCEPT !.saves = 1]

\* Math.round of a number given in halves: the nearest integer, a half
\* rounding up
MathRound(x2) == (x2 + 1) \div 2

NextDrawingId == CHOOSE d \in DrawingIds :
                   /\ drawings[d].status = "absent"
                   /\ \A e \in DrawingIds : e < d => drawings[e].status # "absent"

\* request bodies of POST /drawings: Drawing.create(req.body) stores what
\* the schema knows of the body, so a client may preset the status and the
\* lists; absent fields take the schema defaults
CreateBody(status, preset, stationsFound, completionTime) ==
  [status |-> status, preset |-> preset,
   stationsFound |-> stationsFound, completionTime |-> completionTime]

\* weightingFactors in halves: (0, 0), (1, 0), (0.5, 0.5), (-1, 0.5)
CreateBodies ==
  {CreateBody("pending", <<>>, f[1], f[2]) :
     f \in {<<0, 0>>, <<2, 0>>, <<1, 1>>, <<-2, 1>>}}
  \cup {CreateBody("completed", <<1>>, 0, 0), CreateBody("pending", <<1>>, 0, 0)}

createDrawing(u, d, body) ==
  /\ drawings[d].status = "absent"
  /\ d = NextDrawingId
  /\ IF ~authorize({"admin"}, u)
       THEN /\ resp' = Response("createDrawing", 403, FALSE)
            /\ UNCHANGED drawings
       ELSE /\ drawings' = [drawings EXCEPT ![d] =
                              [status |-> body.status,
                               eligibleClasses |-> body.preset,
                               winners |-> body.preset,
                               stationsFound |-> body.stationsFound,
                               completionTime |-> body.completionTime]]
            /\ resp' = Response("createDrawing", 201, FALSE)
  /\ UNCHANGED <<stations, classes, scans, now, runs, scanReqs>>

\* GET /drawings
getDrawings(u) ==
  /\ resp' = IF ~authorize({"admin"}, u) THEN Response("getDrawings", 403, FALSE)
             ELSE Response("getDrawings", 200, FALSE)
  /\ UNCHANGED <<stations, classes, scans, drawings, now, runs, scanReqs>>

\* GET /drawings/:id
getDrawing(u, d) ==
  /\ resp' = IF ~authorize({"admin"}, u) THEN Response("getDrawing", 403, FALSE)
             ELSE IF drawings[d].status = "absent"
               THEN Response("getDrawing", 404, FALSE)
             ELSE Response("getDrawing", 200, FALSE)
  /\ UNCHANGED <<stations, classes, scans, drawings, now, runs, scanReqs>>

\* Class.find({ isActive: true })
activeClasses == {c \in ClassIds : classes[c].exists /\ classes[c].isActive}

\* Scan.find({ class: classObj._id })
ScanFind(c) == {x \in scans : x.class = c}

\* new Set(scans.map(s => s.station.toString())).size
stationsFoundCount(c) == Cardinality({x.station : x \in ScanFind(c)})

\* eligibility read from the completion flag kept on the class document
isEligible_Cached(c, totalPossibleStations) == classes[c].isCompleted

\* eligibility as an exact match of the two counts
isEligible_Exact(c, totalPossibleStations) ==
  stationsFoundCount(c) = totalPossibleStations

\* the eligibility gate of runDrawing: the class is skipped when
\* stationsFoundCount < totalPossibleStations
isEligible(c, totalPossibleStations) ==
  ~(stationsFoundCount(c) < totalPossibleStations)

\* (endTime - startTime): startTime is the earliest scan, endTime the
\* latest among the last scans of each station
completionTimeMinutes(c) ==
  LET sc == ScanFind(c)
      startTime == SetMin({x.scannedAt : x \in sc})
      lastScanByStation ==
        [s \in {x.station : x \in sc} |->
           SetMax({x.scannedAt : x \in {y \in sc : y.station = s}})]
      endTime == SetMax(Range(lastScanByStation))
  IN  endTime - startTime

\* weight with the completion-time bonus scaled by the minutes taken
weight_TimeScaled(c, totalPossibleStations, drawing) ==
  LET found == stationsFoundCount(c)
      base == 2 + found * drawing.stationsFound
      bonus == IF /\ found = totalPossibleStations
                  /\ ScanFind(c) # {}
                  /\ completionTimeMinutes(c) > 0
                  /\ drawing.completionTime # 0
                 THEN completionTimeMinutes(c) * drawing.completionTime
                 ELSE 0
      rounded == MathRound(base + bonus)
  IN  IF rounded > 1 THEN rounded ELSE 1

\* weight with a missing-factor default of 1 instead of 0
weight_DefaultFactor(c, totalPossibleStations, drawing) ==
  LET found == stationsFoundCount(c)
      sf == IF drawing.stationsFound = 0 THEN 2 ELSE drawing.stationsFound
      rounded == MathRound(2 + found * sf)
  IN  IF rounded > 1 THEN rounded ELSE 1

\* the number of pool entries of an eligible class; factors and the sum are
\* in halves
weight(c, totalPossibleStations, drawing) ==
  LET found == stationsFoundCount(c)
      base == 2 + found * drawing.stationsFound
      bonus == IF /\ found = totalPossibleStations
                  /\ ScanFind(c) # {}
                  /\ completionTimeMinutes(c) > 0
                  /\ drawing.completionTime # 0
                 THEN drawing.completionTime
                 ELSE 0
      rounded == MathRound(base + bonus)
  IN  IF rounded > 1 THEN rounded ELSE 1

\* the loop over activeClasses from class c on: the ids pushed to
\* drawing.eligibleClasses, and the entry pool
RECURSIVE eligiblePushed(_, _)
eligiblePushed(c, total) ==
  IF c > NumClasses THEN <<>>
  ELSE (IF c \in activeClasses /\ isEligible(c, total) THEN <<c>> ELSE <<>>)
       \o eligiblePushed(c + 1, total)

RECURSIVE eligibleEntries(_, _, _)
eligibleEntries(c, total, drawing) ==
  IF c > NumClasses THEN <<>>
  ELSE (IF c \in activeClasses /\ isEligible(c, total)
          THEN [i \in 1..weight(c, total, drawing) |-> c]
          ELSE <<>>)
       \o eligibleEntries(c + 1, total, drawing)

\* the Fisher-Yates loop: every array it can leave, for every outcome of
\* Math.random; i runs from the last index down to the second
Swap(a, i, j) == [a EXCEPT ![i] = a[j], ![j] = a[i]]

RECURSIVE Shuffle(_, _)
Shuffle(arrays, i) ==
  IF i <= 1 THEN arrays
  ELSE Shuffle({Swap(a, i, j) : a \in arrays, j \in 1..i}, i - 1)

ShuffleOutcomes(entries) == Shuffle({entries}, Len(entries))

\* the selection loop without the pickedClassIds test
RECURSIVE pickWinners_Repeat(_, _, _, _)
pickWinners_Repeat(entries, i, winners, numberOfWinners) ==
  IF i > Len(entries) THEN winners
  ELSE LET picked == IF Len(winners) < numberOfWinners
                       THEN Append(winners, entries[i])
                       ELSE winners
       IN  IF Len(picked) >= numberOfWinners
             THEN picked
             ELSE pickWinners_Repeat(entries, i + 1, picked, numberOfWinners)

\* the selection loop without the numberOfWinners cap
RECURSIVE pickWinners_NoCap(_, _, _, _)
pickWinners_NoCap(entries, i, winners, numberOfWinners) ==
  IF i > Len(entries) THEN winners
  ELSE pickWinners_NoCap(entries, i + 1,
         IF entries[i] \notin Range(winners) THEN Append(winners, entries[i])
         ELSE winners,
         numberOfWinners)

\* the selection loop over the shuffled entries from index i on
RECURSIVE pickWinners(_, _, _, _)
pickWinners(entries, i, winners, numberOfWinners) ==
  IF i > Len(entries) THEN winners
  ELSE LET picked == IF /\ Len(winners) < numberOfWinners
                        /\ entries[i] \notin Range(winners)
                       THEN Append(winners, entries[i])
                       ELSE winners
       IN  IF Len(picked) >= numberOfWinners
             THEN picked
             ELSE pickWinners(entries, i + 1, picked, numberOfWinners)

\* the status test left out
alreadyCompleted_Never(drawing) == FALSE

\* drawing.status === 'completed'
alreadyCompleted(drawing) == drawing.status = "completed"

\* the drawing document after the run: the eligible ids pushed, the winners
\* picked from the shuffled pool, the status set
drawingAfterRun(drawing, total, shuffled, numberOfWinners) ==
  [drawing EXCEPT !.eligibleClasses = @ \o eligiblePushed(1, total),
                  !.winners = pickWinners(shuffled, 1, <<>>, numberOfWinners),
                  !.status = "completed"]

\* runDrawing with the status saved before the pool is examined
runDrawing_StatusFirst(u, d, numberOfWinners) ==
  /\ authorize({"admin"}, u)
  /\ numberOfWinners > 0
  /\ drawings[d].status = "pending"
  /\ drawings' = [drawings EXCEPT ![d].status = "completed"]
  /\ resp' = Response("runDrawing", 400, FALSE)
  /\ UNCHANGED <<stations, classes, scans, now, runs, scanReqs>>

\* POST /drawings/:id/run with body { numberOfWinners }; 0 stands for a
\* missing or non-positive number
runDrawing(u, d, numberOfWinners) ==
  /\ IF ~authorize({"admin"}, u)
       THEN /\ resp' = Response("runDrawing", 403, FALSE)
            /\ UNCHANGED drawings
     ELSE IF numberOfWinners <= 0
       THEN /\ resp' = Response("runDrawing", 400, FALSE)
            /\ UNCHANGED drawings
     ELSE IF drawings[d].status = "absent"
       THEN /\ resp' = Response("runDrawing", 404, FALSE)
            /\ UNCHANGED drawings
     ELSE IF alreadyCompleted(drawings[d])
       THEN /\ resp' = Response("runDrawing", 409, FALSE)
            /\ UNCHANGED drawings
     ELSE IF totalActiveStations = 0
       THEN /\ resp' = Response("runDrawing", 400, FALSE)
            /\ UNCHANGED drawings
     ELSE IF Len(eligibleEntries(1, totalActiveStations, drawings[d])) = 0
       THEN /\ resp' = Response("runDrawing", 400, FALSE)
            /\ UNCHANGED drawings
     ELSE \E shuffled \in ShuffleOutcomes(
                 eligibleEntries(1, totalActiveStations, drawings[d])) :
            /\ drawings' = [drawings EXCEPT ![d] =
                 drawingAfterRun(@, totalActiveStations, shuffled, numberOfWinners)]
            /\ resp' = RunResponse
  /\ UNCHANGED <<stations, classes, scans, now, runs, scanReqs>>

\* runDrawing as the requests interleave: the handler yields at each await,
\* and what matters between two requests on one drawing is the read of the
\* drawing, the reads of the store, and the save.
\* Up to the status test: request r keeps the document findById returned.
runBegin(r, u, d, numberOfWinners) ==
  /\ runs[r].pc = "idle"
  /\ IF ~authorize({"admin"}, u)
       THEN /\ resp' = Response("runDrawing", 403, FALSE)
            /\ UNCHANGED runs
     ELSE IF numberOfWinners <= 0
       THEN /\ resp' = Response("runDrawing", 400, FALSE)
            /\ UNCHANGED runs
     ELSE IF drawings[d].status = "absent"
       THEN /\ resp' = Response("runDrawing", 404, FALSE)
            /\ UNCHANGED runs
     ELSE IF alreadyCompleted(drawings[d])
       THEN /\ resp' = Response("runDrawing", 409, FALSE)
            /\ UNCHANGED runs
     ELSE /\ runs' = [runs EXCEPT ![r] =
                 [pc |-> "found", d |-> d, numberOfWinners |-> numberOfWinners,
                  drawing |-> drawings[d]]]
          /\ UNCHANGED resp
  /\ UNCHANGED <<stations, classes, scans, drawings, now, scanReqs>>

\* The reads of stations, classes and scans, the pool, the shuffle and the
\* selection, all on the request's own document.
runCompute(r) ==
  /\ runs[r].pc = "found"
  /\ IF totalActiveStations = 0
       THEN /\ resp' = Response("runDrawing", 400, FALSE)
            /\ runs' = [runs EXCEPT ![r] = NoRun]
     ELSE IF Len(eligibleEntries(1, totalActiveStations, runs[r].drawing)) = 0
       THEN /\ resp' = Response("runDrawing", 400, FALSE)
            /\ runs' = [runs EXCEPT ![r] = NoRun]
     ELSE \E shuffled \in ShuffleOutcomes(
                 eligibleEntries(1, totalActiveStations, runs[r].drawing)) :
            /\ runs' = [runs EXCEPT ![r].pc = "picked",
                                     ![r].drawing = drawingAfterRun(@,
                                        totalActiveStations, shuffled,
                                        runs[r].numberOfWinners)]
            /\ UNCHANGED resp
  /\ UNCHANGED <<stations, classes, scans, drawings, now, scanReqs>>

\* await drawing.save(): the request's document is written to the store
runSave(r) ==
  /\ runs[r].pc = "picked"
  /\ drawings' = [drawings EXCEPT ![runs[r].d] = runs[r].drawing]
  /\ resp' = RunResponse
  /\ runs' = [runs EXCEPT ![r] = NoRun]
  /\ UNCHANGED <<stations, classes, scans, now, scanReqs>>

\* the classes >= c that GET /drawings/eligible-classes lists
RECURSIVE eligibleClassesOutput(_, _)
eligibleClassesOutput(c, total) ==
  IF c > NumClasses THEN <<>>
  ELSE (IF c \in activeClasses /\ stationsFoundCount(c) >= total
          THEN <<c>> ELSE <<>>)
       \o eligibleClassesOutput(c + 1, total)

getEligibleClassesForDrawing(u) ==
  /\ IF ~authorize({"admin"}, u)
       THEN resp' = Response("getEligibleClassesForDrawing", 403, FALSE)
     ELSE IF totalActiveStations = 0
       THEN resp' = Response("getEligibleClassesForDrawing", 400, FALSE)
     ELSE resp' = [Response("getEligibleClassesForDrawing", 200, FALSE)
                     EXCEPT !.data = eligibleClassesOutput(1, totalActiveStations)]
  /\ UNCHANGED <<stations, classes, scans, drawings, now, runs, scanReqs>>

\* ---- the scanning system ------------------------------------------------
ScanStations == StationIds
ScanClasses == 1..NumScanClasses

StationOps(S) ==
  \E u \in {"admin", "t1"}, s \in S :
    \/ \E a \in BOOLEAN : createStation(u, s, a)
    \/ \E a \in BOOLEAN : updateStation(u, s, a)
    \/ deleteStation(u, s)

ClassOps(C) ==
  \E c \in C :
    \/ createClass("t1", c, "a")
    \/ \E u \in Users, b \in UpdateBodies : updateClass(u, c, b)

ScanOps(C, S) ==
  \E c \in C \cup {NoId}, s \in S \cup {NoId}, ok \in BOOLEAN :
    recordScan(c, s, ok)

NextScan ==
  \/ Tick
  \/ StationOps(ScanStations)
  \/ ClassOps(ScanClasses)
  \/ ScanOps(ScanClasses, ScanStations)

SpecScan == Init /\ [][NextScan]_vars

\* ---- the drawing system -------------------------------------------------
DrawStations == 1..NumDrawStations

DrawingOps ==
  \E u \in {"admin", "t1"} :
    \/ \E d \in DrawingIds, b \in CreateBodies : createDrawing(u, d, b)
    \/ \E d \in DrawingIds, n \in 0..MaxWinners : runDrawing(u, d, n)
    \/ getEligibleClassesForDrawing(u)

NextDraw ==
  \/ Tick
  \/ \E s \in DrawStations :
       \/ \E a \in BOOLEAN : createStation("admin", s, a)
       \/ \E a \in BOOLEAN : updateStation("admin", s, a)
  \/ \E c \in ClassIds : createClass("t1", c, "a")
  \/ \E c \in ClassIds, s \in DrawStations : recordScan(c, s, TRUE)
  \/ DrawingOps

SpecDraw == Init /\ [][NextDraw]_vars

\* ---- claims on scanning -------------------------------------------------
\* a recordScan request that passes the station and class validation
ValidScan(c, s) ==
  /\ c \in ClassIds /\ s \in StationIds
  /\ stations[s] = "active"
  /\ classes[c].exists /\ classes[c].isActive

HasScan(c, s) == \E x \in scans : x.class = c /\ x.station = s

C2_CompletionLatch ==
  [][\A c \in ClassIds : classes[c].isCompleted => classes'[c].isCompleted]_vars

\* a class that completed earlier has scanned a further station since, and
\* an active station it never scanned exists
C2_Witness ==
  \E c \in ClassIds :
    /\ classes[c].isCompleted
    /\ \E x \in scans : x.class = c /\ x.scannedAt > classes[c].completedAt
    /\ \E s \in ActiveStations : s \notin classes[c].stationsScanned

\* C3: a step that sets isCompleted leaves the class with every active
\* station in stationsScanned.
C3_CompletionCoversActive ==
  [][\A c \in ClassIds :
       (~classes[c].isCompleted /\ classes'[c].isCompleted) =>
         ActiveStations \subseteq classes'[c].stationsScanned]_vars

\* ---- the drawing system over a fixed hunt: every station stays active ----
NextPick ==
  \/ \E s \in DrawStations : createStation("admin", s, TRUE)
  \/ \E c \in ClassIds : createClass("t1", c, "a")
  \/ \E c \in ClassIds, s \in DrawStations : recordScan(c, s, TRUE)
  \/ DrawingOps

SpecPick == Init /\ [][NextPick]_vars

\* ---- the drawing system with overlapping runs ---------------------------
RaceStations == {1}

NextRace ==
  \/ createStation("admin", 1, TRUE)
  \/ \E c \in ClassIds : createClass("t1", c, "a")
  \/ \E c \in ClassIds, s \in RaceStations : recordScan(c, s, TRUE)
  \/ \E d \in DrawingIds, b \in CreateBodies : createDrawing("admin", d, b)
  \/ \E r \in RunIds, u \in {"admin", "t1"}, d \in DrawingIds,
        n \in 0..MaxWinners : runBegin(r, u, d, n)
  \/ \E r \in RunIds : runCompute(r)
  \/ \E r \in RunIds : runSave(r)

SpecRace == Init /\ [][NextRace]_vars

\* ---- claims on drawings -------------------------------------------------
\* this step is a run that completed drawing d
RunCompleted(d) ==
  drawings[d].status = "pending" /\ drawings'[d].status = "completed"

\* the ids this step appended to the eligibleClasses of drawing d
PushedBy(d) ==
  SubSeq(drawings'[d].eligibleClasses,
         Len(drawings[d].eligibleClasses) + 1,
         Len(drawings'[d].eligibleClasses))

\* class c has a Scan record for every station that is active
CoversActive(c) == \A s \in ActiveStations : HasScan(c, s)

NoRepeats(seq) == \A i, j \in 1..Len(seq) : seq[i] = seq[j] => i = j

Min(a, b) == IF a < b THEN a ELSE b

C5_WinnersDistinct ==
  [][\A d \in DrawingIds :
       RunCompleted(d) => NoRepeats(drawings'[d].winners)]_vars

\* a run wrote two winners, one of them a class with several pool entries
C5_Witness ==
  /\ resp = RunResponse
  /\ \E d \in DrawingIds :
       /\ drawings[d].status = "completed"
       /\ Len(drawings[d].winners) = 2
       /\ \E c \in Range(drawings[d].winners) :
            weight(c, totalActiveStations, drawings[d]) > 1

\* C6: a successful run with numberOfWinners >= 1 writes
\* min(numberOfWinners, number of distinct eligible classes) winners and
\* answers 200; when the eligible classes are fewer than requested, all of
\* them win.
C6_WinnerCount ==
  [][\A u \in Users, d \in DrawingIds, n \in 1..MaxWinners :
       (RunCompleted(d) /\ runDrawing(u, d, n)) =>
         LET eligible == Range(PushedBy(d))
         IN  /\ Len(drawings'[d].winners) = Min(n, Cardinality(eligible))
             /\ resp'.code = 200
             /\ Cardinality(eligible) <= n =>
                  Range(drawings'[d].winners) = eligible
    ]_vars

\* a run found two eligible classes and wrote one winner
C6_Witness ==
  /\ resp = RunResponse
  /\ \E d \in DrawingIds :
       /\ drawings[d].status = "completed"
       /\ Len(drawings[d].winners) = 1
       /\ Cardinality(Range(eligiblePushed(1, totalActiveStations))) = 2

\* the number of entries of sequence seq that are x
Count(seq, x) == Cardinality({i \in 1..Len(seq) : seq[i] = x})

\* C7: with both weighting factors 0, each eligible class of a run has
\* weight 1 and exactly one pool entry, and if numberOfWinners is at least
\* the number of eligible classes the winners are exactly the eligible
\* classes.
C7_ZeroFactors ==
  [][\A u \in Users, d \in DrawingIds, n \in 1..MaxWinners :
       (/\ RunCompleted(d)
        /\ drawings[d].stationsFound = 0 /\ drawings[d].completionTime = 0
        /\ runDrawing(u, d, n)) =>
         LET eligible == Range(PushedBy(d))
             pool == eligibleEntries(1, totalActiveStations, drawings[d])
         IN  /\ \A c \in eligible :
                  /\ weight(c, totalActiveStations, drawings[d]) = 1
                  /\ Count(pool, c) = 1
             /\ Len(pool) = Cardinality(eligible)
             /\ n >= Cardinality(eligible) =>
                  Range(drawings'[d].winners) = eligible
    ]_vars

\* a run with both factors 0 made winners of two classes, one of which took
\* time between its first and its last scan
C7_Witness ==
  /\ resp = RunResponse
  /\ \E d \in DrawingIds :
       /\ drawings[d].status = "completed"
       /\ drawings[d].stationsFound = 0 /\ drawings[d].completionTime = 0
       /\ Len(drawings[d].winners) = 2
       /\ \E c \in Range(drawings[d].winners) : completionTimeMinutes(c) > 0

\* C8: a run requested by an admin with numberOfWinners >= 1 on a drawing
\* whose status is completed answers 409 and leaves the drawing as it was.
C8_CompletedRunRejected ==
  [][\A u \in Users, d \in DrawingIds, n \in 1..MaxWinners :
       (/\ drawings[d].status = "completed" /\ authorize({"admin"}, u)
        /\ runDrawing(u, d, n)) =>
         /\ resp' = Response("runDrawing", 409, FALSE)
         /\ drawings'[d] = drawings[d]
    ]_vars

\* a second run on a drawing that a run completed with two winners was
\* rejected
C8_Witness ==
  /\ resp = Response("runDrawing", 409, FALSE)
  /\ \E d \in DrawingIds :
       /\ drawings[d].status = "completed"
       /\ Len(drawings[d].winners) = 2
       /\ NoRepeats(drawings[d].winners)

C10_StatusMonotone ==
  [][\A d \in DrawingIds :
       /\ drawings[d].status = "completed" => drawings'[d].status = "completed"
       /\ (drawings[d].status # "absent" /\
           drawings'[d].status # drawings[d].status) =>
            /\ RunCompleted(d)
            /\ resp' = RunResponse
    ]_vars

\* a drawing completed by a run of two winners has seen a later operation
C10_Witness ==
  /\ resp.op # "runDrawing"
  /\ \E d \in DrawingIds :
       drawings[d].status = "completed" /\ Len(drawings[d].winners) = 2

\* ---- the scanning system with overlapping requests ----------------------
RaceScanStations == 1..NumDrawStations
RaceScanClasses == 1..NumScanClasses

NextScanRace ==
  \/ Tick
  \/ \E s \in RaceScanStations : createStation("admin", s, TRUE)
  \/ \E c \in RaceScanClasses : createClass("t1", c, "a")
  \/ \E r \in ScanReqIds, c \in RaceScanClasses \cup {NoId},
        s \in RaceScanStations : scanFind(r, c, s)
  \/ \E r \in ScanReqIds : scanCheck(r)
  \/ \E r \in ScanReqIds, ok \in BOOLEAN : scanExisting(r, ok)
  \/ \E r \in ScanReqIds : scanCreate(r)
  \/ \E r \in ScanReqIds, ok \in BOOLEAN : scanUpdate(r, ok)

SpecScanRace == Init /\ [][NextScanRace]_vars

\* ---- claims on overlapping scans ----------------------------------------
\* C11: in every state, however recordScan requests interleave, the store
\* holds at most one Scan record per (class, station) pair.
C11_OneScanPerPair ==
  \A c \in ClassIds, s \in StationIds :
    Cardinality({x \in scans : x.class = c /\ x.station = s}) <= 1

\* two requests for one pair both passed the existing-scan check; one has
\* inserted its record at an earlier time, the other is about to insert
C11_Witness ==
  \E r, q \in ScanReqIds :
    /\ scanReqs[r].pc = "created" /\ scanReqs[q].pc = "new"
    /\ scanReqs[r].c = scanReqs[q].c /\ scanReqs[r].s = scanReqs[q].s
    /\ \E x \in scans : /\ x.class = scanReqs[q].c
                        /\ x.station = scanReqs[q].s
                        /\ x.scannedAt < now

\* C12: a request that passed the existing-scan check and whose insert then
\* meets a record of its pair ends with the 200 response, existing = true.
C12_LoserAlreadyScanned ==
  [][\A r \in ScanReqIds :
       (/\ scanReqs[r].pc = "new"
        /\ HasScan(scanReqs[r].c, scanReqs[r].s)
        /\ scanReqs'[r].pc # "new") =>
         resp' = Response("recordScan", 200, TRUE)]_vars

\* ---- the class queries ---------------------------------------------------
ClassQueries(C) ==
  \E u \in Requesters, c \in C :
    \/ getClass(u, c)
    \/ getClassDetails(u, c)
    \/ getClassProgress(u, c)
    \/ \E b \in UpdateBodies : updateClass(u, c, b)

NextClass ==
  \/ Tick
  \/ \E s \in DrawStations, a \in BOOLEAN : createStation("admin", s, a)
  \/ \E s \in DrawStations, a \in BOOLEAN : updateStation("admin", s, a)
  \/ \E c \in ScanClasses : createClass("t1", c, "a")
  \/ \E c \in ScanClasses, s \in DrawStations : recordScan(c, s, TRUE)
  \/ ClassQueries(ScanClasses)

SpecClass == Init /\ [][NextClass]_vars

\* ---- claims on the class queries ----------------------------------------
\* the last response is a served progress query of class c
ProgressOf(c) ==
  /\ resp.op = "getClassProgress" /\ resp.code = 200
  /\ resp.progress.class = c

ScanTimes(c) == {x.scannedAt : x \in ScanFind(c)}

\* C15: a progress query of a class that has a Scan record for every active
\* station (there being one) reports isCompleted = true and a
\* completionTime equal to the time from the class's earliest scan to its
\* latest scan.
C15_ProgressCompletionTime ==
  \A c \in ClassIds :
    (ProgressOf(c) /\ ActiveStations # {} /\ CoversActive(c)) =>
      /\ resp.progress.isCompleted
      /\ resp.progress.completionTime =
           SetMax(ScanTimes(c)) - SetMin(ScanTimes(c))

\* C16: a progress query reports isCompleted = true exactly when the
\* completedCount it reports is at least the totalStations it reports and
\* totalStations > 0.
C16_ProgressCompletedIff ==
  \A c \in ClassIds :
    ProgressOf(c) =>
      (resp.progress.isCompleted <=>
         (/\ resp.progress.completedCount >= resp.progress.totalStations
          /\ resp.progress.totalStations > 0))

\* ---- claims on rejected requests ----------------------------------------
\* C13: a runDrawing answered 400 (numberOfWinners missing or not positive,
\* no active station, no eligible class) changes no drawing: a pending
\* drawing stays pending with its winners and eligibleClasses.
C13_RejectedRunPersistsNothing ==
  [][\A u \in Users, d \in DrawingIds, n \in 0..MaxWinners :
       (/\ resp'.op = "runDrawing" /\ resp'.code = 400
        /\ runDrawing(u, d, n)) =>
         /\ drawings' = drawings
         /\ drawings[d].status = "pending" =>
              \/ n <= 0
              \/ totalActiveStations = 0
              \/ \A c \in activeClasses :
                   stationsFoundCount(c) < totalActiveStations
    ]_vars

\* a run was rejected although a station is active and a class has scanned:
\* the drawing is still pending
C13_Witness ==
  /\ resp = Response("runDrawing", 400, FALSE)
  /\ totalActiveStations > 0
  /\ \E c \in activeClasses : ScanFind(c) # {}
  /\ \E d \in DrawingIds :
       drawings[d].status = "pending" /\ drawings[d].winners = <<>>

C17_SameEligibility ==
  [][/\ (resp'.op = "getEligibleClassesForDrawing" /\ resp'.code # 403) =>
          IF totalActiveStations = 0
            THEN resp'.code = 400
            ELSE /\ resp'.code = 200
                 /\ Range(resp'.data) =
                      Range(eligiblePushed(1, totalActiveStations))
     /\ \A d \in DrawingIds :
          RunCompleted(d) =>
            /\ totalActiveStations > 0
            /\ Range(PushedBy(d)) =
                 Range(eligibleClassesOutput(1, totalActiveStations))
     /\ \A d \in DrawingIds, n \in 1..MaxWinners :
          (/\ totalActiveStations = 0
           /\ drawings[d].status = "pending"
           /\ runDrawing("admin", d, n)) => resp'.code = 400
    ]_vars

\* the list names a class that has scanned more stations than are active
C17_Witness ==
  /\ resp.op = "getEligibleClassesForDrawing" /\ resp.code = 200
  /\ \E c \in Range(resp.data) : stationsFoundCount(c) > totalActiveStations

\* ---- claims on failing saves --------------------------------------------
\* C18: a first scan of a pair whose class save fails stores its Scan
\* record, leaves the class documents as they were and answers 201.
C18_SaveFailureKeepsScan ==
  [][\A c \in ScanClasses, s \in ScanStations :
       (/\ resp'.op = "recordScan"
        /\ ValidScan(c, s) /\ ~HasScan(c, s)
        /\ recordScan(c, s, FALSE)) =>
         /\ scans' = scans \cup {[class |-> c, station |-> s, scannedAt |-> now]}
         /\ classes' = classes
         /\ resp' = Response("recordScan", 201, FALSE)
    ]_vars

\* a first scan was answered 201 and its station is missing from the
\* class's stationsScanned
C18_Witness ==
  /\ resp = Response("recordScan", 201, FALSE)
  /\ \E x \in scans : x.station \notin classes[x.class].stationsScanned

\* ---- the drawing routes and their requesters ----------------------------
AuthStations == {1}

DrawingRequest(u) ==
  \/ \E d \in DrawingIds, b \in CreateBodies : createDrawing(u, d, b)
  \/ getDrawings(u)
  \/ \E d \in DrawingIds : getDrawing(u, d)
  \/ \E d \in DrawingIds, n \in 0..MaxWinners : runDrawing(u, d, n)
  \/ getEligibleClassesForDrawing(u)

NextAuth ==
  \/ \E s \in AuthStations : createStation("admin", s, TRUE)
  \/ \E c \in ClassIds : createClass("t1", c, "a")
  \/ \E c \in ClassIds, s \in AuthStations : recordScan(c, s, TRUE)
  \/ \E u \in Requesters : DrawingRequest(u)

SpecAuth == Init /\ [][NextAuth]_vars

DrawingOpNames ==
  {"createDrawing", "getDrawings", "getDrawing", "runDrawing",
   "getEligibleClassesForDrawing"}

\* C19: a drawing request (create, list, get, run, eligible-classes) of a
\* user who is not the admin, whatever the role and also without one, is
\* answered 403 and changes no drawing.
C19_DrawingsAdminOnly ==
  [][\A u \in Requesters \ {"admin"} :
       (resp'.op \in DrawingOpNames /\ DrawingRequest(u)) =>
         /\ resp'.code = 403
         /\ drawings' = drawings]_vars

\* a run was refused with 403 while a pending drawing and a class that has
\* scanned the active station were there
C19_Witness ==
  /\ resp = Response("runDrawing", 403, FALSE)
  /\ \E d \in DrawingIds : drawings[d].status = "pending"
  /\ totalActiveStations > 0
  /\ \E c \in activeClasses : stationsFoundCount(c) >= totalActiveStations

\* ---- claims on class ownership ------------------------------------------
ClassOpNames == {"getClass", "getClassDetails", "getClassProgress", "updateClass"}

ClassRequest(u, c) ==
  \/ getClass(u, c)
  \/ getClassDetails(u, c)
  \/ getClassProgress(u, c)
  \/ \E b \in UpdateBodies : updateClass(u, c, b)

C21_RunNotifiesAndSavesTwice ==
  [][\A d \in DrawingIds :
       RunCompleted(d) =>
         /\ resp'.saves = 2
         /\ resp'.emails =
              {classes[c].teacher : c \in Range(drawings'[d].winners)}]_vars

\* ---- the class profile --------------------------------------------------
NextFrame ==
  \/ Tick
  \/ \E s \in DrawStations : createStation("admin", s, TRUE)
  \/ \E c \in ScanClasses : createClass("t1", c, "a")
  \/ \E c \in ScanClasses, s \in DrawStations : recordScan(c, s, TRUE)
  \/ \E u \in Users, c \in ScanClasses, b \in FrameBodies : updateClass(u, c, b)

SpecFrame == Init /\ [][NextFrame]_vars

\* C22: an updateClass request, whatever its body names, changes of the
\* class documents at most the name (the profile) of a class: classCode,
\* teacher, stationsScanned, isCompleted, completedAt and lastScanAt stay,
\* as does everything else.
C22_UpdateClassFrame ==
  [][resp'.op = "updateClass" =>
       \A c \in ClassIds :
         /\ classes'[c] = [classes[c] EXCEPT !.name = classes'[c].name]
         /\ classes'[c].classCode = classes[c].classCode
         /\ classes'[c].teacher = classes[c].teacher
         /\ classes'[c].stationsScanned = classes[c].stationsScanned
         /\ classes'[c].isCompleted = classes[c].isCompleted
         /\ classes'[c].completedAt = classes[c].completedAt
         /\ classes'[c].lastScanAt = classes[c].lastScanAt]_vars

\* an update was served and renamed a completed class
C22_Witness ==
  /\ resp = Response("updateClass", 200, FALSE)
  /\ \E c \in ClassIds :
       /\ classes[c].name = "b" /\ classes[c].isCompleted
       /\ classes[c].stationsScanned # {} /\ classes[c].classCode = c

\* ---- the drawing system with hunts of different lengths -----------------
\* weightingFactors in halves: (0, 1), (0.5, 0.5), (-1, 0.5), (0, -2), (1, 0)
WeightBodies ==
  {CreateBody("pending", <<>>, f[1], f[2]) :
     f \in {<<0, 2>>, <<1, 1>>, <<-2, 1>>, <<0, -4>>, <<2, 0>>}}

NextWeight ==
  \/ LongTick
  \/ \E s \in DrawStations, a \in BOOLEAN : createStation("admin", s, a)
  \/ \E s \in DrawStations, a \in BOOLEAN : updateStation("admin", s, a)
  \/ \E c \in ScanClasses : createClass("t1", c, "a")
  \/ \E c \in ScanClasses, s \in DrawStations : recordScan(c, s, TRUE)
  \/ \E d \in DrawingIds, b \in WeightBodies : createDrawing("admin", d, b)
  \/ \E d \in DrawingIds, n \in 1..MaxWinners : runDrawing("admin", d, n)

SpecWeight == Init /\ [][NextWeight]_vars

\* C23: in a run that completes a drawing every eligible class has n >= 1
\* pool entries, n being max(1, round(x)) for
\* x = 1 + completedCount * stationsFound + bonus, where the bonus is the
\* completionTime factor if completedCount = totalStations, the latest scan
\* of the class is later than its earliest and the factor is not 0, and is
\* 0 otherwise; the time between the two scans does not enter.  x2 is x in
\* halves: round(x) = n means x2 is 2n - 1 or 2n.
C23_WeightFormula ==
  [][\A d \in DrawingIds :
       RunCompleted(d) =>
         LET total == totalActiveStations
             pool == eligibleEntries(1, total, drawings[d])
         IN  \A c \in Range(PushedBy(d)) :
               LET n == Count(pool, c)
                   cc == stationsFoundCount(c)
                   bonus == IF /\ cc = total
                               /\ SetMax(ScanTimes(c)) > SetMin(ScanTimes(c))
                               /\ drawings[d].completionTime # 0
                              THEN drawings[d].completionTime
                              ELSE 0
                   x2 == 2 + cc * drawings[d].stationsFound + bonus
               IN  /\ n >= 1
                   /\ n > 1 => x2 \in {2 * n - 1, 2 * n}
                   /\ n = 1 => x2 <= 2
    ]_vars

\* a run with a nonzero completionTime factor was won by a class that took
\* two units of time over all active stations
C23_Witness ==
  /\ resp = RunResponse
  /\ \E d \in DrawingIds :
       /\ drawings[d].status = "completed"
       /\ drawings[d].completionTime # 0
       /\ \E c \in Range(drawings[d].winners) :
            /\ stationsFoundCount(c) = totalActiveStations
            /\ SetMax(ScanTimes(c)) - SetMin(ScanTimes(c)) = 2

NextScanRoster ==
  \/ NextScanRace
  \/ \E s \in RaceScanStations, a \in BOOLEAN : updateStation("admin", s, a)

SpecScanRoster == Init /\ [][NextScanRoster]_vars

\* request r is at its completion check: its class document is not
\* completed, so this step reads the count of active stations
ReadsActiveCount(r) ==
  /\ scanReqs[r].pc = "created" /\ scanReqs'[r].pc = "idle"
  /\ ~scanReqs[r].classObj.isCompleted

\* C25: a recordScan whose completion check reads a count of zero active
\* stations marks its class completed (isCompleted = true, completedAt
\* set), as the branch for no active stations says.
C25_ZeroActiveCompletes ==
  [][\A r \in ScanReqIds :
       (/\ ReadsActiveCount(r)
        /\ totalActiveStations = 0
        /\ classes' # classes) =>
         /\ classes'[scanReqs[r].c].isCompleted
         /\ classes'[scanReqs[r].c].completedAt = now]_vars

\* C25, what holds instead: no completion check that reads a count of zero
\* active stations completes the class; stationsScanned is never empty at
\* the check, so the branch for no active stations is never taken.
C25_ZeroBranchNeverTaken ==
  [][\A r \in ScanReqIds :
       ReadsActiveCount(r) =>
         /\ Cardinality(UpdatedClassDoc(scanReqs[r].classObj, scanReqs[r].s,
                          totalActiveStations).stationsScanned) > 0
         /\ totalActiveStations = 0 =>
              (classes'[scanReqs[r].c].isCompleted =>
                 classes[scanReqs[r].c].isCompleted)]_vars

\* ---- runs over a store whose class documents lag behind the scans -------
\* one recordScan request at a time, split at its awaits: its last step
\* changes the class document and nothing else
CacheReqs == {1}

NextCache ==
  \/ Tick
  \/ \E s \in DrawStations : createStation("admin", s, TRUE)
  \/ \E c \in ScanClasses : createClass("t1", c, "a")
  \/ \E r \in CacheReqs, c \in ScanClasses, s \in DrawStations : scanFind(r, c, s)
  \/ \E r \in CacheReqs : scanCheck(r)
  \/ \E r \in CacheReqs, ok \in BOOLEAN : scanExisting(r, ok)
  \/ \E r \in CacheReqs : scanCreate(r)
  \/ \E r \in CacheReqs, ok \in BOOLEAN : scanUpdate(r, ok)
  \/ \E d \in DrawingIds, b \in WeightBodies : createDrawing("admin", d, b)
  \/ \E d \in DrawingIds, n \in 1..MaxWinners : runDrawing("admin", d, n)

SpecCache == Init /\ [][NextCache]_vars

\* the class documents with the progress fields kept by recordScan blanked
WithoutCache(cls) ==
  [c \in ClassIds |->
     [cls[c] EXCEPT !.stationsScanned = {}, !.isCompleted = FALSE,
                    !.completedAt = NoDate, !.lastScanAt = NoDate]]

\* C26: two store states with the same Scan records, stations and drawings
\* whose class documents differ only in stationsScanned, isCompleted,
\* completedAt or lastScanAt give a run the same eligibleClasses and the
\* same entry pool.
C26_CacheIrrelevant ==
  [][(/\ classes' # classes
      /\ WithoutCache(classes') = WithoutCache(classes)
      /\ scans' = scans /\ stations' = stations /\ drawings' = drawings) =>
       /\ eligiblePushed(1, totalActiveStations)' =
            eligiblePushed(1, totalActiveStations)
       /\ \A d \in DrawingIds :
            eligibleEntries(1, totalActiveStations, drawings[d])' =
              eligibleEntries(1, totalActiveStations, drawings[d])
    ]_vars

\* a run made a winner of a class whose document says it is not completed
\* and lacks a station it has a Scan record for
C26_Witness ==
  /\ resp = RunResponse
  /\ \E d \in DrawingIds :
       /\ drawings[d].status = "completed"
       /\ \E c \in Range(drawings[d].winners) :
            /\ ~classes[c].isCompleted
            /\ \E x \in ScanFind(c) : x.station \notin classes[c].stationsScanned

\* ---- claims on the references to stations -------------------------------
\* C27: in every state the station of each Scan record and each entry of a
\* class's stationsScanned is a station the store still holds.
C27_StationReferencesLive ==
  /\ \A x \in scans : StationExists(x.station)
  /\ \A c \in ClassIds : \A s \in classes[c].stationsScanned : StationExists(s)

\* ---- overlapping scans of a hunt whose roster is fixed ------------------
\* the stations are set up before the first scan request; every class save
\* succeeds
HuntNotStarted ==
  scans = {} /\ \A r \in ScanReqIds : scanReqs[r].pc = "idle"

NextScanFixed ==
  \/ Tick
  \/ HuntNotStarted /\ \E s \in RaceScanStations : createStation("admin", s, TRUE)
  \/ \E c \in RaceScanClasses : createClass("t1", c, "a")
  \/ \E r \in ScanReqIds, c \in RaceScanClasses, s \in RaceScanStations :
       scanFind(r, c, s)
  \/ \E r \in ScanReqIds : scanCheck(r)
  \/ \E r \in ScanReqIds : scanExisting(r, TRUE)
  \/ \E r \in ScanReqIds : scanCreate(r)
  \/ \E r \in ScanReqIds : scanUpdate(r, TRUE)

SpecScanFixed == Init /\ [][NextScanFixed]_vars

\* C28: when no recordScan request is in flight, a class with a Scan record
\* for every active station (there being one) has isCompleted = true.
C28_CoveredMeansCompleted ==
  \A c \in ClassIds :
    (/\ \A r \in ScanReqIds : scanReqs[r].pc = "idle"
     /\ classes[c].exists
     /\ ActiveStations # {}
     /\ CoversActive(c)) => classes[c].isCompleted

\* ---- claims on the winners of a run -------------------------------------
\* this step is a run that completed drawing d, which had been created with
\* empty eligibleClasses and winners
FreshRunCompleted(d) ==
  /\ RunCompleted(d)
  /\ drawings[d].eligibleClasses = <<>> /\ drawings[d].winners = <<>>

C29_WinnersAmongEligible ==
  [][\A d \in DrawingIds :
       FreshRunCompleted(d) =>
         \A w \in Range(drawings'[d].winners) :
           /\ w \in Range(drawings'[d].eligibleClasses)
           /\ w \in activeClasses]_vars

\* ---- claims on completedAt ----------------------------------------------
\* C30: completedAt is set in exactly the states where isCompleted is true,
\* it is set to the time of the step that sets isCompleted, and once set it
\* never changes.
C30_CompletedAtSetOnce ==
  [][\A c \in ClassIds :
       /\ (classes'[c].completedAt # NoDate) <=> classes'[c].isCompleted
       /\ (~classes[c].isCompleted /\ classes'[c].isCompleted) =>
            classes'[c].completedAt = now
       /\ classes[c].completedAt # NoDate =>
            classes'[c].completedAt = classes[c].completedAt]_vars

====
